---- MODULE Spec2Model ----
(***************************************************************************)
(* The click tracker of coinrader, CLICK_TRACKER_VERSION 20260122_02       *)
(* (src/unnamed/part_000): one capturing click listener on the document    *)
(* that classifies anchor clicks (cta_click, affiliate_click,              *)
(* outbound_click), reports them through window.gtag and, for a same-tab   *)
(* affiliate click, holds navigation back until the report completes or a  *)
(* fallback timer fires.                                                   *)
(*                                                                         *)
(* The page is single-threaded: the click listener runs to completion, and *)
(* so does every later callback (the transport's event_callback, the       *)
(* setTimeout callback).  One action is one such run.  A behaviour is a    *)
(* page with one anchor, any anchor of Anchors, and a series of clicks on  *)
(* it or beside it, each with any event and any behaviour of window.gtag.  *)
(*                                                                         *)
(* The repository also holds three earlier copies of the script            *)
(* (src/unnamed/part_001, src/assets/gs_click.js,                          *)
(* src/assets/click_tracker.js).  The variable `variant` says which copy   *)
(* the page loads; Spec is the page that loads part_000, VariantSpec the   *)
(* page that loads any one of the four.                                    *)
(***************************************************************************)
EXTENDS Integers, Sequences, FiniteSets, TLC

\* ------------------------------------------------------------------ bounds

\* Clicks handled in one behaviour.
MaxClicks == 2
\* Times the analytics transport invokes one event_callback (inside the gtag
\* call and afterwards, together).
MaxCalls == 2

\* ------------------------------------------------------- program constants

\* p.event_timeout = 800
EventTimeout == 800

\* ------------------------------------------------------------ environment

\* a.dataset.x of an attribute that is not on the anchor.
Undefined == "undefined"

PageOrigin == "https://coinrader.example"
NoHref == ""
BadHref == "http://["
SameHref == "https://coinrader.example/go/bitflyer"
CrossHref == "https://partner.example/lp"
Hrefs == {NoHref, BadHref, SameHref, CrossHref}

\* new URL(href, location.href): throws on a string that is no URL; a.href is
\* already absolute, so the base plays no part for the others.
URLParse(href) ==
  CASE href = SameHref  -> [ok |-> TRUE, origin |-> PageOrigin, hostname |-> "coinrader.example"]
    [] href = CrossHref -> [ok |-> TRUE, origin |-> "https://partner.example", hostname |-> "partner.example"]
    [] OTHER            -> [ok |-> FALSE, origin |-> "", hostname |-> ""]

\* The click events the user produces: any combination of the modifier keys
\* the listener reads, with the left (0) or the middle (1) button.
Events ==
  [ metaKey : BOOLEAN, ctrlKey : BOOLEAN, shiftKey : BOOLEAN, button : {0, 1} ]

PlainClick == [metaKey |-> FALSE, ctrlKey |-> FALSE, shiftKey |-> FALSE, button |-> 0]

Targets == {"", "_blank"}

\* An anchor: href, target and the data-* attributes the listener reads (each
\* missing, empty or carrying an id); data-pr, which part_000 only copies into
\* the event, is missing.
Anchors ==
  [ href : Hrefs, target : Targets,
    ga : {Undefined, "", "hero"}, cta : {Undefined, "nav"},
    aff : {Undefined, "", "bitflyer"}, pr : {Undefined} ]

NoAnchor ==
  [ href |-> NoHref, target |-> "", ga |-> Undefined, cta |-> Undefined,
    aff |-> Undefined, pr |-> Undefined ]

\* The copies of the script.
Variants == {"part_000", "part_001", "gs_click.js", "click_tracker.js"}

\* The anchors of the pages the copies are compared on: a CTA id or none, a
\* partner id or none, and data-pr="1" on anchors that carry a partner id.
VariantAnchors ==
  {a \in [ href : Hrefs, target : Targets, ga : {Undefined, "hero"},
            cta : {Undefined}, aff : {Undefined, "bitflyer"},
            pr : {Undefined, "1"} ] :
     a.pr = "1" => a.aff # Undefined /\ a.ga = Undefined}

\* The events they are compared on (and the events of the page with two
\* anchors): a plain click, a shift-click, a middle-button click.
VariantEvents ==
  {PlainClick, [PlainClick EXCEPT !.shiftKey = TRUE], [PlainClick EXCEPT !.button = 1]}

VariantInputs(a) ==
  [ hasAnchor : {TRUE}, a : {a}, e : VariantEvents ]
    \cup [ hasAnchor : {FALSE}, a : {NoAnchor}, e : {PlainClick} ]

\* The clicks on a page that holds anchor a: on the anchor (closest("a") is a)
\* with any event, or elsewhere (closest("a") is null).
ClickInputs(a) ==
  [ hasAnchor : {TRUE}, a : {a}, e : Events ]
    \cup [ hasAnchor : {FALSE}, a : {NoAnchor}, e : {PlainClick} ]

\* What the browser is at the moment of a click.  window.gtag: not a function,
\* or a function that invokes the event_callback it is handed `sync` times
\* before it returns, and then returns or throws.  location: whether the
\* assignment location.href = href throws (fails \in failing).
Behaviours(failing) ==
  [ present : {FALSE}, sync : {0}, throws : {FALSE}, fails : failing ]
    \cup [ present : {TRUE}, sync : 0..MaxCalls, throws : BOOLEAN, fails : failing ]

\* A browser in which the assignment of location.href succeeds.
GtagBehaviours == Behaviours({FALSE})

\* A browser in which it may throw as well.
FailingBehaviours == Behaviours(BOOLEAN)

\* A function that is handed no event_callback has none to invoke.
GtagFor(handed) ==
  IF handed THEN GtagBehaviours ELSE {g \in GtagBehaviours : g.sync = 0}

\* A test of presence instead: any value that is not undefined passes.
TruthyPresent(v) == v # Undefined

\* JavaScript truthiness of a dataset value, and a || b.
Truthy(v) == v # Undefined /\ v # ""
JsOr(a, b) == IF Truthy(a) THEN a ELSE b


\* ------------------------------------------------------------------ state

VARIABLES
  \* The anchor of the page.
  page,
  \* clicks[i]: the i-th click of the behaviour: what the listener did with it
  \* and the state of the closure (gate, timer, callback held by the
  \* transport) it left behind.
  clicks,
  \* Clicks handled so far.
  n,
  \* The copy of the script the page loads.
  variant

vars == <<page, clicks, n, variant>>

Ids == 1..MaxClicks

\* What is remembered of the click itself (read by the properties only, never
\* by the listener): the anchor's href, whether a marker attribute is absent,
\* present and empty, or set to an id, and the event's new-tab intent.
MarkerState(v) == IF v = Undefined THEN "absent" ELSE IF v = "" THEN "empty" ELSE "set"

EitherMarker(s, t) ==
  IF s = "set" \/ t = "set" THEN "set"
  ELSE IF s = "empty" \/ t = "empty" THEN "empty" ELSE "absent"

Observe(raw) ==
  [ anchor |-> raw.hasAnchor,
    href   |-> raw.a.href,
    cta    |-> EitherMarker(MarkerState(raw.a.ga), MarkerState(raw.a.cta)),
    aff    |-> MarkerState(raw.a.aff),
    pr     |-> (raw.a.pr = "1"),
    newTab |-> (raw.a.target = "_blank" \/ raw.e.metaKey \/ raw.e.ctrlKey
                  \/ raw.e.shiftKey \/ raw.e.button = 1) ]

NoInput ==
  [ anchor |-> FALSE, href |-> NoHref, cta |-> "absent", aff |-> "absent",
    pr |-> FALSE, newTab |-> FALSE ]

\* A click not yet made (st = "none"); Fresh(raw, g) is the click as the
\* listener starts on it (st = "here").
Blank ==
  [ st        |-> "none",
    inp       |-> NoInput,
    gtag      |-> FALSE,     \* window.gtag was a function at the click
    href      |-> NoHref,    \* const href, captured by the callback
    newTab    |-> FALSE,     \* const newTab, captured by the callback
    prevented |-> FALSE,     \* e.preventDefault() was called
    sent      |-> <<>>,      \* the events passed to window.gtag
    cb        |-> FALSE,     \* fire was given a callback
    done      |-> FALSE,     \* once: let done
    timer     |-> "none",    \* the setTimeout: none, pending, fired
    held      |-> FALSE,     \* the transport holds p.event_callback
    calls     |-> 0,         \* times the transport invoked event_callback
    runs      |-> 0,         \* times the callback body ran
    navs      |-> <<>>,      \* the values assigned to location.href
    threw     |-> FALSE,     \* the listener ended by an exception
    fails     |-> FALSE,     \* location.href = href throws for this click
    caught    |-> 0,         \* exceptions that ended in once's catch
    escaped   |-> FALSE ]   \* an exception left the callback uncaught

Fresh(raw, g) ==
  [Blank EXCEPT !.st = "here", !.inp = Observe(raw), !.gtag = g.present,
                !.fails = g.fails]

\* ------------------------------------------------- the tracker (part_000)

\* typeof window.gtag === "function"
hasGtag(g) == g.present

\* The callback of the affiliate branch: if (!newTab) location.href = href.
\* The assignment either takes place or throws out of the callback.
callback(c) ==
  [c EXCEPT !.runs = @ + 1,
            !.navs = IF ~c.newTab /\ ~c.fails THEN Append(@, c.href) ELSE @,
            !.escaped = ~c.newTab /\ c.fails]

\* try { fn && fn(); } catch (_) {}: an exception of fn ends here.
tryCatch(c) ==
  IF c.escaped THEN [c EXCEPT !.escaped = FALSE, !.caught = @ + 1] ELSE c

\* once without its test of done: every invocation runs fn.
onceUngated(c) == tryCatch(callback([c EXCEPT !.done = TRUE]))

\* once that sets done after fn has returned: a fn that throws leaves the gate
\* open.
onceMarksAfter(c) ==
  IF c.done
  THEN c
  ELSE LET r == callback(c)
       IN  IF r.escaped THEN tryCatch(r) ELSE [r EXCEPT !.done = TRUE]

\* once whose done is one variable of the script, shared by the gates of all
\* clicks.
onceSharedGate(c) ==
  IF c.done \/ \E j \in Ids : clicks[j].done
  THEN c
  ELSE tryCatch(callback([c EXCEPT !.done = TRUE]))

\* One invocation of the function once(fn) returned: nothing when done, else
\* done is set and fn runs inside try/catch.
once(c) ==
  IF c.done THEN c ELSE tryCatch(callback([c EXCEPT !.done = TRUE]))

\* The transport invokes p.event_callback, which is the gated callback.
eventCallback(c) == once([c EXCEPT !.calls = @ + 1])

RECURSIVE Invoke(_, _)
Invoke(c, k) == IF k = 0 THEN c ELSE Invoke(eventCallback(c), k - 1)

\* The parameter object fire hands to window.gtag; event_timeout 0 stands for
\* a key that is not set.
Params(eventName, withCallback) ==
  [ name           |-> eventName,
    transport_type |-> "beacon",
    event_callback |-> withCallback,
    event_timeout  |-> IF withCallback THEN EventTimeout ELSE 0 ]

\* window.gtag("event", eventName, p): the transport takes the event, keeps
\* p.event_callback when there is one, invokes it g.sync times before it
\* returns, and returns or throws.
gtag(c, p, g) ==
  LET taken  == [c EXCEPT !.sent = Append(@, p), !.held = p.event_callback]
      called == IF p.event_callback THEN Invoke(taken, g.sync) ELSE taken
  IN  [called EXCEPT !.threw = g.throws]

\* fire without its last line: no fallback timer.
fireNoTimer(c, eventName, withCallback, g) ==
  LET c0 == [c EXCEPT !.cb = withCallback]
  IN  IF ~hasGtag(g)
      THEN IF c0.cb THEN once(c0) ELSE c0
      ELSE gtag(c0, Params(eventName, c0.cb), g)

\* fire that forgets the callback when there is no gtag.
fireDropsCallback(c, eventName, withCallback, g) ==
  LET c0 == [c EXCEPT !.cb = withCallback]
  IN  IF ~hasGtag(g)
      THEN c0
      ELSE LET c1 == gtag(c0, Params(eventName, c0.cb), g)
           IN  IF c1.threw
               THEN c1
               ELSE [c1 EXCEPT !.timer = IF c1.cb THEN "pending" ELSE "none"]

\* fire(eventName, params, callback)
fire(c, eventName, withCallback, g) ==
  LET c0 == [c EXCEPT !.cb = withCallback]
  IN  IF ~hasGtag(g)
      THEN IF c0.cb THEN once(c0) ELSE c0
      ELSE LET c1 == gtag(c0, Params(eventName, c0.cb), g)
           IN  IF c1.threw
               THEN c1
               ELSE [c1 EXCEPT !.timer = IF c1.cb THEN "pending" ELSE "none"]

\* isNewTabClick without the middle button.
isNewTabClickNoMiddle(a, e) ==
  \/ a.target = "_blank"
  \/ e.metaKey \/ e.ctrlKey \/ e.shiftKey

isNewTabClick(a, e) ==
  \/ a.target = "_blank"
  \/ e.metaKey \/ e.ctrlKey \/ e.shiftKey
  \/ e.button = 1

\* The early returns without the test that the href parses.
ignoredUnparsed(raw) ==
  \/ ~raw.hasAnchor
  \/ raw.a.href = ""

\* The listener's early returns: no enclosing anchor, no href, new URL throws.
ignored(raw) ==
  \/ ~raw.hasAnchor
  \/ raw.a.href = ""
  \/ ~URLParse(raw.a.href).ok

\* 1) const ctaId = a.dataset.ga || a.dataset.cta; if (ctaId) { ... }
isCta(a) == Truthy(JsOr(a.ga, a.cta))

\* The CTA branch of the 20260122_01 policy, which held navigation back.
ctaBranchDeferring(c, g) ==
  IF ~c.newTab
  THEN fire([c EXCEPT !.prevented = TRUE], "cta_click", TRUE, g)
  ELSE fire(c, "cta_click", FALSE, g)

ctaBranch(c, g) == fire(c, "cta_click", FALSE, g)

\* 2) const aff = a.dataset.aff; if (aff) { ... }
isAff(a) == Truthy(a.aff)

\* The affiliate branch without e.preventDefault().
affBranchNoPrevent(c, g) == fire(c, "affiliate_click", TRUE, g)

affBranch(c, g) ==
  fire([c EXCEPT !.prevented = ~c.newTab], "affiliate_click", TRUE, g)

\* The outbound branch without its test of sameOrigin.
outboundBranchAlways(c, sameOrigin, g) == fire(c, "outbound_click", FALSE, g)

\* 3) if (!sameOrigin) { ... }
outboundBranch(c, sameOrigin, g) ==
  IF ~sameOrigin THEN fire(c, "outbound_click", FALSE, g) ELSE c

\* The listener with the affiliate test ahead of the CTA test.
listenerAffFirst(raw, g) ==
  LET c == Fresh(raw, g)
  IN  IF ignored(raw)
      THEN c
      ELSE LET url == URLParse(raw.a.href)
               c0  == [c EXCEPT !.href = raw.a.href,
                                !.newTab = isNewTabClick(raw.a, raw.e)]
           IN  IF isAff(raw.a) THEN affBranch(c0, g)
               ELSE IF isCta(raw.a) THEN ctaBranch(c0, g)
               ELSE outboundBranch(c0, url.origin = PageOrigin, g)

\* The click listener, from the event to its return (or the exception that
\* ends it).
listener(raw, g) ==
  LET c == Fresh(raw, g)
  IN  IF ignored(raw)
      THEN c
      ELSE LET url == URLParse(raw.a.href)
               c0  == [c EXCEPT !.href = raw.a.href,
                                !.newTab = isNewTabClick(raw.a, raw.e)]
           IN  IF isCta(raw.a) THEN ctaBranch(c0, g)
               ELSE IF isAff(raw.a) THEN affBranch(c0, g)
               ELSE outboundBranch(c0, url.origin = PageOrigin, g)

\* ------------------------------------------ the earlier copies of the script

\* function () { location.href = href; }: the callback of the CTA branch of
\* part_001 and gs_click.js.
callback_cta(c) ==
  [c EXCEPT !.runs = @ + 1,
            !.navs = IF ~c.fails THEN Append(@, c.href) ELSE @,
            !.escaped = c.fails]

\* The transport invokes p.event_callback, which is the callback itself.
eventCallback_ungated(c) == callback_cta([c EXCEPT !.calls = @ + 1])

RECURSIVE Invoke_ungated(_, _)
Invoke_ungated(c, k) ==
  IF k = 0 THEN c ELSE Invoke_ungated(eventCallback_ungated(c), k - 1)

\* window.gtag("event", eventName, p), handed the callback itself.
gtag_ungated(c, p, g) ==
  LET taken  == [c EXCEPT !.sent = Append(@, p), !.held = p.event_callback]
      called == IF p.event_callback THEN Invoke_ungated(taken, g.sync) ELSE taken
  IN  [called EXCEPT !.threw = g.throws]

\* gs_click.js: the parameter object has no transport_type.
Params_gs_click(eventName, withCallback) ==
  [Params(eventName, withCallback) EXCEPT !.transport_type = Undefined]

\* fire of gs_click.js without its last line: no fallback timer.
fire_gs_click_NoTimer(c, eventName, withCallback, g) ==
  LET c0 == [c EXCEPT !.cb = withCallback]
  IN  IF ~hasGtag(g)
      THEN IF c0.cb THEN callback_cta(c0) ELSE c0
      ELSE gtag_ungated(c0, Params_gs_click(eventName, c0.cb), g)

\* gs_click.js: fire(eventName, params, callback)
fire_gs_click(c, eventName, withCallback, g) ==
  LET c0 == [c EXCEPT !.cb = withCallback]
  IN  IF ~hasGtag(g)
      THEN IF c0.cb THEN callback_cta(c0) ELSE c0
      ELSE LET c1 == gtag_ungated(c0, Params_gs_click(eventName, c0.cb), g)
           IN  IF c1.threw
               THEN c1
               ELSE [c1 EXCEPT !.timer = IF c1.cb THEN "pending" ELSE "none"]

\* gs_click.js: the click listener.
listener_gs_click(raw, g) ==
  LET c == Fresh(raw, g)
  IN  IF ignored(raw)
      THEN c
      ELSE LET url == URLParse(raw.a.href)
               sameOrigin == url.origin = PageOrigin
               c0  == [c EXCEPT !.href = raw.a.href,
                                !.newTab = isNewTabClick(raw.a, raw.e)]
           IN  IF isCta(raw.a)
               THEN IF ~c0.newTab /\ sameOrigin
                    THEN fire_gs_click([c0 EXCEPT !.prevented = TRUE], "cta_click", TRUE, g)
                    ELSE fire_gs_click(c0, "cta_click", FALSE, g)
               ELSE IF isAff(raw.a)
               THEN fire_gs_click(c0, "affiliate_click", FALSE, g)
               ELSE IF ~sameOrigin
               THEN fire_gs_click(c0, "outbound_click", FALSE, g)
               ELSE c0

\* part_001: fire(eventName, params, callback)
fire_part_001(c, eventName, withCallback, g) ==
  LET c0 == [c EXCEPT !.cb = withCallback]
  IN  IF ~hasGtag(g)
      THEN IF c0.cb THEN callback_cta(c0) ELSE c0
      ELSE LET c1 == gtag_ungated(c0, Params(eventName, c0.cb), g)
           IN  IF c1.threw
               THEN c1
               ELSE [c1 EXCEPT !.timer = IF c1.cb THEN "pending" ELSE "none"]

\* part_001 with the affiliate branch of the other copies: affiliate_click
\* whatever data-pr is.
listener_part_001_AffAlways(raw, g) ==
  LET c == Fresh(raw, g)
  IN  IF ignored(raw)
      THEN c
      ELSE LET url == URLParse(raw.a.href)
               c0  == [c EXCEPT !.href = raw.a.href,
                                !.newTab = isNewTabClick(raw.a, raw.e)]
           IN  IF isCta(raw.a)
               THEN IF ~c0.newTab
                    THEN fire_part_001([c0 EXCEPT !.prevented = TRUE], "cta_click", TRUE, g)
                    ELSE fire_part_001(c0, "cta_click", FALSE, g)
               ELSE IF isAff(raw.a)
               THEN fire_part_001(c0, "affiliate_click", FALSE, g)
               ELSE IF url.origin # PageOrigin
               THEN fire_part_001(c0, "outbound_click", FALSE, g)
               ELSE c0

\* part_001: the click listener.
listener_part_001(raw, g) ==
  LET c == Fresh(raw, g)
  IN  IF ignored(raw)
      THEN c
      ELSE LET url == URLParse(raw.a.href)
               c0  == [c EXCEPT !.href = raw.a.href,
                                !.newTab = isNewTabClick(raw.a, raw.e)]
               isPr == raw.a.pr = "1"
           IN  IF isCta(raw.a)
               THEN IF ~c0.newTab
                    THEN fire_part_001([c0 EXCEPT !.prevented = TRUE], "cta_click", TRUE, g)
                    ELSE fire_part_001(c0, "cta_click", FALSE, g)
               ELSE IF isAff(raw.a)
               THEN fire_part_001(c0, IF isPr THEN "affiliate_click" ELSE "outbound_click", FALSE, g)
               ELSE IF url.origin # PageOrigin
               THEN fire_part_001(c0, "outbound_click", FALSE, g)
               ELSE c0

\* click_tracker.js does not parse: the block opened by `if (ctaId) {` at line
\* 53 is closed by the `}` of line 97, and the `,` that follows it is a
\* SyntaxError.  The script is not run, no listener is registered, and a
\* click has no effect.
listener_click_tracker(raw, g) == Fresh(raw, g)

\* The listener the page has registered.
handler(v, raw, g) ==
  CASE v = "part_000"         -> listener(raw, g)
    [] v = "part_001"         -> listener_part_001(raw, g)
    [] v = "gs_click.js"      -> listener_gs_click(raw, g)
    [] v = "click_tracker.js" -> listener_click_tracker(raw, g)

\* What fire handed to the transport and to setTimeout: once(callback) in
\* part_000, the callback itself in the earlier copies.
handedToTransport(v, c) ==
  IF v = "part_000" THEN eventCallback(c) ELSE eventCallback_ungated(c)

handedToTimer(v, c) ==
  IF v = "part_000" THEN once(c) ELSE callback_cta(c)

\* ---------------------------------------------------------------- actions

Init ==
  /\ variant = "part_000"
  /\ page \in Anchors
  /\ clicks = [i \in Ids |-> Blank]
  /\ n = 0

\* A click that left no closure behind (no pending timer, no callback with the
\* transport) has no further behaviour: its record is cleared when the next
\* click arrives.
Gone == [Blank EXCEPT !.st = "gone"]

alive(c) == c.timer = "pending" \/ c.held

forget(f) ==
  [i \in Ids |-> IF f[i].st = "here" /\ ~alive(f[i]) THEN Gone ELSE f[i]]

\* The user clicks; the listener runs to its end.
Click(raw, g) ==
  /\ n < MaxClicks
  /\ n' = n + 1
  /\ clicks' = [forget(clicks) EXCEPT ![n + 1] = handler(variant, raw, g)]
  /\ UNCHANGED <<page, variant>>

Returns == [present |-> TRUE, sync |-> 0, throws |-> FALSE, fails |-> FALSE]

\* The analytics transport invokes the event_callback it was handed.
TransportCallback(i) ==
  /\ clicks[i].held
  /\ clicks[i].calls < MaxCalls
  /\ clicks' = [clicks EXCEPT ![i] = handedToTransport(variant, @)]
  /\ UNCHANGED <<page, n, variant>>

\* The 850 ms timer of click i fires.
TimerFire(i) ==
  /\ clicks[i].timer = "pending"
  /\ clicks' = [clicks EXCEPT ![i] = handedToTimer(variant, [@ EXCEPT !.timer = "fired"])]
  /\ UNCHANGED <<page, n, variant>>

Next ==
  \/ \E raw \in ClickInputs(page) :
       \E g \in GtagFor(handler(variant, raw, Returns).held) : Click(raw, g)
  \/ \E i \in Ids : TransportCallback(i)
  \/ \E i \in Ids : TimerFire(i)

Spec == Init /\ [][Next]_vars

\* setTimeout: a timer that was scheduled fires.  Nothing obliges the
\* transport to invoke event_callback, nor the user to click.
FairSpec == Spec /\ \A i \in Ids : WF_vars(TimerFire(i))

\* The same page in a browser where location.href = href may throw: the
\* page's anchor is an affiliate anchor, whose clicks hand fire a callback.
ThrowPages ==
  {a \in Anchors : isAff(a) /\ ~isCta(a) /\ a.ga = Undefined /\ a.href = SameHref}

ThrowInit ==
  /\ variant = "part_000"
  /\ page \in ThrowPages
  /\ clicks = [i \in Ids |-> Blank]
  /\ n = 0

\* A browser has a failing location only where the click has a callback to
\* fail in.
FailingFor(handed) ==
  IF handed
  THEN FailingBehaviours
  ELSE {g \in FailingBehaviours : g.sync = 0 /\ ~g.fails}

ThrowNext ==
  \/ \E raw \in ClickInputs(page) :
       \E g \in FailingFor(handler(variant, raw, Returns).held) : Click(raw, g)
  \/ \E i \in Ids : TransportCallback(i)
  \/ \E i \in Ids : TimerFire(i)

ThrowSpec == ThrowInit /\ [][ThrowNext]_vars

\* A page with two affiliate anchors that differ in their destination, so that
\* the clicks of one behaviour capture different hrefs.
PairPages ==
  {a \in Anchors : isAff(a) /\ ~isCta(a) /\ a.ga = Undefined
                     /\ a.href = SameHref /\ a.target = ""}

Partner(a) == [a EXCEPT !.href = CrossHref]

PairInit ==
  /\ variant = "part_000"
  /\ page \in PairPages
  /\ clicks = [i \in Ids |-> Blank]
  /\ n = 0

PairNext ==
  \/ \E a \in {page, Partner(page)} :
       \E raw \in VariantInputs(a) :
         \E g \in GtagFor(handler(variant, raw, Returns).held) : Click(raw, g)
  \/ \E i \in Ids : TransportCallback(i)
  \/ \E i \in Ids : TimerFire(i)

PairSpec == PairInit /\ [][PairNext]_vars

FairPairSpec == PairSpec /\ \A i \in Ids : WF_vars(TimerFire(i))

\* A page that loads any one copy of the script.
VariantInit ==
  /\ variant \in Variants
  /\ page \in VariantAnchors
  /\ clicks = [i \in Ids |-> Blank]
  /\ n = 0

VariantNext ==
  \/ \E raw \in VariantInputs(page) :
       \E g \in GtagFor(handler(variant, raw, Returns).held) : Click(raw, g)
  \/ \E i \in Ids : TransportCallback(i)
  \/ \E i \in Ids : TimerFire(i)

VariantSpec == VariantInit /\ [][VariantNext]_vars

FairVariantSpec == VariantSpec /\ \A i \in Ids : WF_vars(TimerFire(i))

\* --------------------------------------------------- reading the properties

Clicked(i) == clicks[i].st = "here"

\* The click got past the listener's early returns: an enclosing anchor whose
\* href parses as a URL.
Resolvable(x) == x.anchor /\ x.href # NoHref /\ URLParse(x.href).ok

\* A marker is an attribute that carries an id; an attribute that is present
\* with an empty value is told apart by x.cta = "empty", x.aff = "empty".
CtaMarked(x) == x.cta = "set"
AffMarked(x) == x.aff = "set"

CrossOrigin(x) == URLParse(x.href).origin # PageOrigin

\* A click that defers navigation: affiliate marker, no CTA marker, no
\* new-tab intent.
SameTabAffiliate(x) == Resolvable(x) /\ AffMarked(x) /\ ~CtaMarked(x) /\ ~x.newTab

\* The names of the events a click passed to window.gtag, in order.
Names(c) == [k \in DOMAIN c.sent |-> c.sent[k].name]

\* What window.gtag received, given that it received `expected` when it is a
\* function.
Received(c, expected) == Names(c) = IF c.gtag THEN expected ELSE <<>>

\* No callback was registered anywhere and navigation was left alone.
Untouched(c) ==
  /\ ~c.prevented /\ ~c.cb /\ ~c.held
  /\ c.timer = "none" /\ c.runs = 0 /\ c.navs = <<>>

\* ------------------------------------------------------------------ claims

\* C1: for every call of fire with a callback, the callback body executes at
\* most once, whatever the order and number of its triggers (event_callback
\* invoked by the transport inside the gtag call or later, any number of times,
\* and the fallback timer); it therefore assigns location.href at most once.
C1_CallbackAtMostOnce ==
  \A i \in Ids :
    Clicked(i) /\ clicks[i].cb =>
      /\ clicks[i].runs <= 1
      /\ Len(clicks[i].navs) <= 1
      /\ clicks[i].runs = 1 <=> clicks[i].done

\* C1 witness: the transport has invoked event_callback several times and the
\* timer has fired as well; the body ran once.
C1_BothTriggersArrived ==
  \E i \in Ids :
    /\ Clicked(i) /\ clicks[i].cb
    /\ clicks[i].calls >= 2
    /\ clicks[i].timer = "fired"
    /\ clicks[i].runs = 1

\* C2: whenever fire was called with a callback while window.gtag was a
\* function, and the gtag call returned normally, the callback eventually
\* executes and from then on has executed exactly once, even when the transport
\* never invokes event_callback: the fallback timer does it.
C2_CallbackEventuallyOnce ==
  \A i \in Ids :
    [](Clicked(i) /\ clicks[i].cb /\ clicks[i].gtag /\ ~clicks[i].threw
         => <>[](clicks[i].runs = 1))

\* C2 witness: the transport never invoked event_callback; the timer fired and
\* ran the callback.
C2_TimerAloneCompleted ==
  \E i \in Ids :
    /\ Clicked(i) /\ clicks[i].cb /\ clicks[i].gtag /\ ~clicks[i].threw
    /\ clicks[i].calls = 0
    /\ clicks[i].timer = "fired"
    /\ clicks[i].runs = 1

\* C3: for a click without new-tab intent on an anchor with an affiliate marker
\* and no CTA marker, preventDefault is called; location.href is assigned only
\* by the completion callback (as many assignments as callback runs, so none
\* before it fires), at most once, and with the href of the clicked anchor.
C3_AffiliateNavigationDeferred ==
  \A i \in Ids :
    Clicked(i) /\ SameTabAffiliate(clicks[i].inp) =>
      /\ clicks[i].prevented
      /\ clicks[i].cb
      /\ Len(clicks[i].navs) = clicks[i].runs
      /\ clicks[i].runs <= 1
      /\ \A k \in DOMAIN clicks[i].navs : clicks[i].navs[k] = clicks[i].inp.href

\* C3 witness: a deferred click on which both the transport's call and the
\* timer have arrived; location.href holds the one assignment of its href.
C3_ResumedAfterTransport ==
  \E i \in Ids :
    /\ Clicked(i) /\ SameTabAffiliate(clicks[i].inp)
    /\ clicks[i].prevented
    /\ clicks[i].calls >= 1
    /\ clicks[i].timer = "fired"
    /\ clicks[i].navs = <<clicks[i].inp.href>>

\* C4: for a click on an anchor with a CTA marker, whatever its origin, new-tab
\* intent and other markers: exactly one event, cta_click, is passed to
\* window.gtag when it is a function; preventDefault is not called, no callback
\* and no timer is registered, and location.href is never assigned.
C4_CtaNeverBlocks ==
  \A i \in Ids :
    Clicked(i) /\ Resolvable(clicks[i].inp) /\ CtaMarked(clicks[i].inp) =>
      /\ Received(clicks[i], <<"cta_click">>)
      /\ \A k \in DOMAIN clicks[i].sent : ~clicks[i].sent[k].event_callback
      /\ Untouched(clicks[i])

\* C4 witness: a same-tab click on a cross-origin anchor that carries both a
\* CTA and an affiliate marker, with gtag present.
C4_CtaWithAffiliateMarker ==
  \E i \in Ids :
    /\ Clicked(i) /\ Resolvable(clicks[i].inp)
    /\ CtaMarked(clicks[i].inp) /\ AffMarked(clicks[i].inp)
    /\ CrossOrigin(clicks[i].inp) /\ ~clicks[i].inp.newTab
    /\ Names(clicks[i]) = <<"cta_click">>

\* C5: a click with no enclosing anchor, on an anchor without href, or on an
\* anchor whose href does not parse as a URL is ignored: window.gtag is not
\* called, preventDefault is not called, no timer is scheduled, location.href
\* is not assigned, and the listener does not throw.
C5_UnresolvableIgnored ==
  \A i \in Ids :
    Clicked(i) /\ ~Resolvable(clicks[i].inp) =>
      /\ clicks[i].sent = <<>>
      /\ Untouched(clicks[i])
      /\ ~clicks[i].threw

\* C5 witness: a click on an affiliate-marked anchor whose href does not parse,
\* with gtag present.
C5_UnparseableHrefClicked ==
  \E i \in Ids :
    /\ Clicked(i) /\ clicks[i].inp.anchor
    /\ clicks[i].inp.href = BadHref
    /\ AffMarked(clicks[i].inp)
    /\ clicks[i].gtag

\* C6: for a click on an anchor with neither a CTA nor an affiliate marker: a
\* cross-origin destination sends exactly one event, outbound_click, and a
\* same-origin destination sends none; in both cases preventDefault is not
\* called, nothing is registered and location.href is never assigned.
C6_OutboundOnlyCrossOrigin ==
  \A i \in Ids :
    Clicked(i) /\ Resolvable(clicks[i].inp)
      /\ ~CtaMarked(clicks[i].inp) /\ ~AffMarked(clicks[i].inp) =>
      /\ CrossOrigin(clicks[i].inp) => Received(clicks[i], <<"outbound_click">>)
      /\ ~CrossOrigin(clicks[i].inp) => clicks[i].sent = <<>>
      /\ Untouched(clicks[i])

\* C6 witness: a plain click on an unmarked cross-origin anchor, gtag present.
C6_OutboundSent ==
  \E i \in Ids :
    /\ Clicked(i) /\ Resolvable(clicks[i].inp)
    /\ clicks[i].inp.cta = "absent" /\ clicks[i].inp.aff = "absent"
    /\ CrossOrigin(clicks[i].inp) /\ ~clicks[i].inp.newTab
    /\ Names(clicks[i]) = <<"outbound_click">>

\* C7: when window.gtag is not a function at the click, fire passes nothing to
\* the transport, schedules no timer and does not throw; a callback it was
\* given has run by the time the listener returns (the state the Click step
\* ends in is one of the states this holds in), so a same-tab affiliate click
\* has assigned location.href to its href, once, at that point, and nothing
\* is left that could assign it again.
C7_NoGtagResumesAtOnce ==
  \A i \in Ids :
    Clicked(i) /\ ~clicks[i].gtag =>
      /\ clicks[i].sent = <<>>
      /\ clicks[i].timer = "none" /\ ~clicks[i].held
      /\ ~clicks[i].threw
      /\ clicks[i].cb => clicks[i].done /\ clicks[i].runs = 1
      /\ SameTabAffiliate(clicks[i].inp) =>
           /\ clicks[i].prevented
           /\ clicks[i].navs = <<clicks[i].inp.href>>

\* C7 witness: a same-tab affiliate click with no gtag; navigation was held
\* back and has resumed inside the listener.
C7_ResumedInsideListener ==
  \E i \in Ids :
    /\ Clicked(i) /\ ~clicks[i].gtag
    /\ SameTabAffiliate(clicks[i].inp)
    /\ clicks[i].prevented
    /\ clicks[i].navs = <<clicks[i].inp.href>>

\* C8: every same-tab affiliate click on which preventDefault was called is
\* eventually followed by an assignment of location.href, whatever window.gtag
\* does (absent, never invoking event_callback, throwing from the call).
C8_NavigationNeverBlocked ==
  \A i \in Ids :
    [](Clicked(i) /\ SameTabAffiliate(clicks[i].inp) /\ clicks[i].prevented
         => <>(clicks[i].navs # <<>>))

\* C9: every click passes at most one event to window.gtag, chosen by strict
\* priority: cta_click with a CTA marker; else affiliate_click with an
\* affiliate marker, same-origin or not; else outbound_click for a cross-origin
\* destination; else none.  An anchor with both markers sends cta_click only
\* and its navigation is not deferred.
C9_ClassificationByPriority ==
  \A i \in Ids :
    Clicked(i) =>
      /\ Len(clicks[i].sent) <= 1
      /\ Resolvable(clicks[i].inp) =>
           /\ Received(clicks[i],
                IF CtaMarked(clicks[i].inp) THEN <<"cta_click">>
                ELSE IF AffMarked(clicks[i].inp) THEN <<"affiliate_click">>
                ELSE IF CrossOrigin(clicks[i].inp) THEN <<"outbound_click">>
                ELSE <<>>)
           /\ CtaMarked(clicks[i].inp) => ~clicks[i].prevented /\ ~clicks[i].cb

\* C9 witness: an affiliate-marked anchor with a same-origin destination sent
\* affiliate_click.
C9_SameOriginAffiliate ==
  \E i \in Ids :
    /\ Clicked(i) /\ Resolvable(clicks[i].inp)
    /\ AffMarked(clicks[i].inp) /\ ~CtaMarked(clicks[i].inp)
    /\ ~CrossOrigin(clicks[i].inp)
    /\ Names(clicks[i]) = <<"affiliate_click">>

\* C10: for an affiliate click with new-tab intent (target _blank, meta, ctrl
\* or shift held, middle button), preventDefault is not called and
\* location.href is never assigned, at the click or when the callback runs by
\* either trigger; exactly one affiliate_click is still sent.
C10_NewTabAffiliateNotDeferred ==
  \A i \in Ids :
    Clicked(i) /\ Resolvable(clicks[i].inp) /\ AffMarked(clicks[i].inp)
      /\ ~CtaMarked(clicks[i].inp) /\ clicks[i].inp.newTab =>
      /\ ~clicks[i].prevented
      /\ clicks[i].navs = <<>>
      /\ Received(clicks[i], <<"affiliate_click">>)

\* C10 witness: a new-tab affiliate click whose callback has run, with both
\* the transport's call and the timer arrived.
C10_NewTabCallbackRan ==
  \E i \in Ids :
    /\ Clicked(i) /\ Resolvable(clicks[i].inp) /\ AffMarked(clicks[i].inp)
    /\ ~CtaMarked(clicks[i].inp) /\ clicks[i].inp.newTab
    /\ clicks[i].runs = 1
    /\ clicks[i].calls >= 1
    /\ clicks[i].timer = "fired"

\* C11: an exception thrown inside the completion callback ends in the gate's
\* catch: it reaches none of the triggers (the transport's event_callback, the
\* timer, the listener on the path without gtag, which then does not throw).
\* The gate is set before the body runs, so a callback that threw has run once
\* and is not run again by the other trigger.
C11_CallbackExceptionContained ==
  \A i \in Ids :
    Clicked(i) /\ clicks[i].cb =>
      /\ ~clicks[i].escaped
      /\ ~clicks[i].gtag => ~clicks[i].threw
      /\ clicks[i].runs <= 1
      /\ clicks[i].runs = 1 <=> clicks[i].done
      /\ clicks[i].caught =
           (IF clicks[i].runs = 1 /\ clicks[i].fails /\ ~clicks[i].newTab THEN 1 ELSE 0)

\* C11 witness: the callback threw on its first trigger, and the transport and
\* the timer have both arrived since; it has run once.
C11_ThrewThenOtherTrigger ==
  \E i \in Ids :
    /\ Clicked(i) /\ clicks[i].cb
    /\ clicks[i].caught = 1
    /\ clicks[i].calls >= 1
    /\ clicks[i].timer = "fired"
    /\ clicks[i].runs = 1
    /\ clicks[i].navs = <<>>

\* A click that defers navigation.
Deferring(i) == Clicked(i) /\ SameTabAffiliate(clicks[i].inp)

\* The assignments of location.href made by clicks 1..k.
RECURSIVE Assignments(_)
Assignments(k) == IF k = 0 THEN 0 ELSE Len(clicks[k].navs) + Assignments(k - 1)

Ungated == Variants \ {"part_000"}

\* C13: in the copies whose fire has no gate, the completion callback of a
\* navigation-deferring click still executes at most once per click when gtag
\* is a function: the transport's completion followed by the 850 ms timer (or
\* the reverse) does not assign location.href a second time.  Read for a
\* transport that invokes event_callback at most once.
C13_UngatedCallbackAtMostOnce ==
  \A i \in Ids :
    Clicked(i) /\ variant \in Ungated /\ clicks[i].cb /\ clicks[i].gtag
      /\ clicks[i].calls <= 1 =>
      /\ clicks[i].runs <= 1
      /\ Len(clicks[i].navs) <= 1

\* The names of the events copy v passes to a gtag that is a function, on the
\* click raw.
SentBy(v, raw) == Names(handler(v, raw, Returns))

\* The copies that C14 compares.
Compared == {"gs_click.js", "part_001", "part_000"}

\* The clicks on the page that click i may have been.
InputsOf(i) == {raw \in VariantInputs(page) : Observe(raw) = clicks[i].inp}

\* The click on which part_001 goes its own way: a partner id, no CTA id, and
\* data-pr other than "1".
UnpromotedAffiliate(x) ==
  Resolvable(x) /\ AffMarked(x) /\ ~CtaMarked(x) /\ ~x.pr

\* C14 as stated: gs_click.js, part_001 and part_000 classify alike: on every
\* click each of them sends the events part_000 sends on that click (the same
\* name, or none).
C14_VariantsClassifyAlike ==
  \A i \in Ids :
    Clicked(i) /\ variant \in Compared /\ clicks[i].gtag =>
      \A raw \in InputsOf(i) : Names(clicks[i]) = SentBy("part_000", raw)

\* C14 amended: gs_click.js and part_000 send the same event on every click,
\* and part_001 sends that event too except on an anchor with a partner id,
\* no CTA id and data-pr other than "1", where it sends outbound_click and the
\* other two send affiliate_click.
C14_VariantsAlikeButUnpromoted ==
  \A i \in Ids :
    Clicked(i) /\ variant \in Compared /\ clicks[i].gtag =>
      \A raw \in InputsOf(i) :
        IF variant = "part_001" /\ UnpromotedAffiliate(clicks[i].inp)
        THEN /\ Names(clicks[i]) = <<"outbound_click">>
             /\ SentBy("part_000", raw) = <<"affiliate_click">>
             /\ SentBy("gs_click.js", raw) = <<"affiliate_click">>
        ELSE Names(clicks[i]) = SentBy("part_000", raw)

\* C14 witness: part_001 sent outbound_click for a click on a same-origin
\* anchor that carries a partner id and no data-pr.
C14_Part001SentOutbound ==
  \E i \in Ids :
    /\ Clicked(i) /\ variant = "part_001"
    /\ UnpromotedAffiliate(clicks[i].inp) /\ ~CrossOrigin(clicks[i].inp)
    /\ Names(clicks[i]) = <<"outbound_click">>

\* C15: in click_tracker.js a same-tab click on an anchor with an affiliate
\* marker and no CTA marker reaches the affiliate branch (preventDefault is
\* called and affiliate_click is sent with a callback that resumes
\* navigation), and a click on a cross-origin anchor without markers sends
\* outbound_click.
C15_ClickTrackerBranchesReached ==
  \A i \in Ids :
    Clicked(i) /\ variant = "click_tracker.js"
      /\ Resolvable(clicks[i].inp) /\ ~CtaMarked(clicks[i].inp) =>
      /\ AffMarked(clicks[i].inp) /\ ~clicks[i].inp.newTab =>
           /\ clicks[i].prevented
           /\ clicks[i].cb
           /\ Received(clicks[i], <<"affiliate_click">>)
      /\ ~AffMarked(clicks[i].inp) /\ CrossOrigin(clicks[i].inp) =>
           Received(clicks[i], <<"outbound_click">>)

\* C16: in every copy, preventDefault is called only on a path that passes
\* fire a callback, and that callback assigns location.href the href of the
\* click; a prevented click whose gtag call returned has its resume pending
\* until it is made; so whenever gtag is absent or returns, a prevented click
\* is eventually followed by the assignment of its href to location.href.
C16_PreventedClickResumes ==
  /\ [](\A i \in Ids :
          Clicked(i) /\ clicks[i].prevented =>
            /\ clicks[i].cb
            /\ \A k \in DOMAIN clicks[i].navs : clicks[i].navs[k] = clicks[i].inp.href
            /\ ~clicks[i].threw /\ clicks[i].navs = <<>> => clicks[i].timer = "pending")
  /\ \A i \in Ids :
       [](Clicked(i) /\ clicks[i].prevented /\ ~clicks[i].threw =>
            <>(clicks[i].navs # <<>>))

\* C16 witness: gs_click.js held a CTA click back, the transport stayed
\* silent, and the timer resumed the navigation.
C16_GsClickResumedByTimer ==
  \E i \in Ids :
    /\ Clicked(i) /\ variant = "gs_click.js"
    /\ clicks[i].prevented
    /\ clicks[i].calls = 0 /\ clicks[i].timer = "fired"
    /\ clicks[i].navs = <<clicks[i].inp.href>>

\* C17: in part_000 every event handed to window.gtag carries transport_type
\* "beacon"; it carries event_callback and event_timeout = 800 exactly when
\* fire was called with a callback; the 850 ms timer is scheduled exactly when
\* fire was called with a callback and window.gtag is a function; so the
\* events of CTA and outbound clicks carry no callback and start no timer.
C17_EventShapeAndTimer ==
  \A i \in Ids :
    Clicked(i) /\ variant = "part_000" =>
      /\ \A k \in DOMAIN clicks[i].sent :
           /\ clicks[i].sent[k].transport_type = "beacon"
           /\ clicks[i].sent[k].event_callback <=> clicks[i].cb
           /\ clicks[i].sent[k].event_timeout = EventTimeout <=> clicks[i].cb
           /\ clicks[i].sent[k].name \in {"cta_click", "outbound_click"} =>
                ~clicks[i].sent[k].event_callback /\ clicks[i].timer = "none"
      /\ clicks[i].timer # "none" <=> clicks[i].cb /\ clicks[i].gtag

\* An attribute that is on the anchor with an empty value.
EmptyMarker(x) == x.cta = "empty" \/ x.aff = "empty"

\* C18 as stated: classification goes by the presence of a marker attribute:
\* data-ga/data-cta present, even empty, gives cta_click; data-aff present,
\* even empty, and no CTA attribute gives affiliate_click, with navigation
\* deferred in the same tab.
C18_PresenceClassifies ==
  \A i \in Ids :
    Clicked(i) /\ variant = "part_000" /\ Resolvable(clicks[i].inp) =>
      /\ clicks[i].inp.cta # "absent" => Received(clicks[i], <<"cta_click">>)
      /\ clicks[i].inp.cta = "absent" /\ clicks[i].inp.aff # "absent" =>
           /\ Received(clicks[i], <<"affiliate_click">>)
           /\ ~clicks[i].inp.newTab => clicks[i].prevented

\* C18 amended: classification goes by the value: an attribute that is present
\* with an empty value counts as missing.  With an empty data-ga/data-cta the
\* click is not a cta_click and goes on to the affiliate test; with an empty
\* data-aff (and no CTA id) it is not an affiliate_click, navigation is not
\* deferred, and it is an outbound_click when cross-origin, else nothing.
C18_EmptyValueFallsThrough ==
  \A i \in Ids :
    Clicked(i) /\ variant = "part_000" /\ Resolvable(clicks[i].inp)
      /\ EmptyMarker(clicks[i].inp) =>
      /\ Received(clicks[i],
           IF CtaMarked(clicks[i].inp) THEN <<"cta_click">>
           ELSE IF AffMarked(clicks[i].inp) THEN <<"affiliate_click">>
           ELSE IF CrossOrigin(clicks[i].inp) THEN <<"outbound_click">>
           ELSE <<>>)
      /\ ~CtaMarked(clicks[i].inp) /\ AffMarked(clicks[i].inp) =>
           (clicks[i].prevented <=> ~clicks[i].inp.newTab)
      /\ ~AffMarked(clicks[i].inp) => Untouched(clicks[i])

\* C18 witness: a same-tab click on a cross-origin anchor whose data-aff is
\* empty and that has no CTA attribute: outbound_click, navigation left alone.
C18_EmptyAffSentOutbound ==
  \E i \in Ids :
    /\ Clicked(i) /\ variant = "part_000" /\ Resolvable(clicks[i].inp)
    /\ clicks[i].inp.aff = "empty" /\ clicks[i].inp.cta = "absent"
    /\ CrossOrigin(clicks[i].inp) /\ ~clicks[i].inp.newTab
    /\ Names(clicks[i]) = <<"outbound_click">>
    /\ ~clicks[i].prevented

====
